---- MODULE Spec2Model ----
(***************************************************************************)
(* Ball-mapper graph construction and containment-merge simplification of  *)
(* backend/app.py: the raw graph built in get_ballmapper from the cover    *)
(* returned by pyballmapper.BallMapper, and postprocess_ballmapper.        *)
(*                                                                         *)
(* The cover itself is produced by the third-party BallMapper class, so    *)
(* Init draws it from all covers over a bounded point universe: any        *)
(* sequence of balls with distinct landmarks and non-empty point sets.     *)
(* Python dicts iterate in insertion order (a sequence here); Python sets  *)
(* iterate in an unspecified order (a nondeterministic choice here).       *)
(*                                                                         *)
(* Three specifications share the variables:                               *)
(*   Spec         the raw graph and postprocess_ballmapper on any cover;   *)
(*   SpecMatrix   compute_cosine_distance_matrix on any small array;       *)
(*   SpecRequest  the get_ballmapper handler from request.args to the      *)
(*                response, with the graph code of Spec inside it.         *)
(***************************************************************************)
EXTENDS Integers, Sequences, FiniteSets, TLC

\* Bounds of the model.
MaxNodes == 3
MaxPoint == 3
MaxVectors == 2
MaxCoord == 2
MaxSaes == 2

Points == 1..MaxPoint

VARIABLES
    mapper_nodes,     \* bm.Graph.nodes: sequence of [landmark, points_covered]
    nodes,            \* list of raw node dicts handed to postprocess_ballmapper
    edges,            \* list of raw edge dicts handed to postprocess_ballmapper
    node_dict,        \* insertion-ordered dict id -> node, as a sequence of nodes
    adjacency,        \* defaultdict(set): function from its keys to sets of ids
    merged,           \* the while-loop flag
    iteration,        \* the pass counter
    nodes_to_merge,   \* list of (node_id, target_id) flagged by the scan
    idx,              \* position of the merge for-loop in nodes_to_merge
    pc,               \* "build", "start", "loop", "merge", "done", "error"
    processed_nodes,  \* returned node list
    processed_edges,  \* returned edge list
    merge_log,        \* the "Merging node X into Y" lines printed by this call
    run,              \* 1: first application, 2: re-application to its own output
    first_result,     \* what the first application returned
    embeddings,       \* the array handed to compute_cosine_distance_matrix
    distance_matrix,  \* what compute_cosine_distance_matrix produced
    args,             \* request.args of a GET /api/ballmapper/<layer>
    files,            \* what the data directory holds for the layer
    custom_epsilon,   \* get_ballmapper local: the epsilon argument
    max_size,         \* get_ballmapper local: the parsed overlap cap
    eps,              \* get_ballmapper local: the radius
    elbow_calls,      \* number of calls of elbow_eps made by the request
    bm_call,          \* the BallMapper(...) call made by the request
    response          \* the (body, status) pair the handler returned

vars == <<mapper_nodes, nodes, edges, node_dict, adjacency, merged, iteration,
          nodes_to_merge, idx, pc, processed_nodes, processed_edges, merge_log,
          run, first_result, embeddings, distance_matrix, args, files,
          custom_epsilon, max_size, eps, elbow_calls, bm_call, response>>

\* the variables of the request handler around the graph code
handlerVars == <<embeddings, distance_matrix, args, files, custom_epsilon,
                 max_size, eps, elbow_calls, bm_call, response>>

----------------------------------------------------------------------------
\* Helpers over the dict-as-sequence and the defaultdict.

\* keys of an insertion-ordered dict of nodes
Keys(d) == {d[i].id : i \in 1..Len(d)}

\* d[k]
Lookup(d, k) == d[CHOOSE i \in 1..Len(d) : d[i].id = k]

\* del d[k]
Delete(d, k) == SelectSeq(d, LAMBDA n : n.id # k)

\* d[k]['sae_indices'] = s ; d[k]['sae_count'] = c   (position kept)
Update(d, k, s, c) ==
    [i \in 1..Len(d) |->
        IF d[i].id = k THEN [id |-> k, sae_indices |-> s, sae_count |-> c]
        ELSE d[i]]

\* adjacency[k] on a defaultdict(set): the value read
Adj(a, k) == IF k \in DOMAIN a THEN a[k] ELSE {}

\* adjacency[k] on a defaultdict(set): the dict after the read (key created)
Touch(a, k) == [x \in DOMAIN a \cup {k} |-> Adj(a, x)]

\* adjacency.pop(k, None)
Pop(a, k) == [x \in DOMAIN a \ {k} |-> a[x]]

----------------------------------------------------------------------------
\* Values of the handler's variables before the handler has assigned them.

\* Python None, where a string is expected
None == "<None>"

\* a float: finite (in hundredths), nan or inf; "null" is None where a float
\* is expected, "unset" a local not assigned yet
Float(kind, hundredths) == [kind |-> kind, hundredths |-> hundredths]
NullFloat == Float("null", 0)
UnsetFloat == Float("unset", 0)

NoMatrix == [state |-> "none", m |-> <<>>]
NoCall == [called |-> FALSE, eps |-> UnsetFloat, max_size |-> 0]
NoResponse == [status |-> 0, body |-> [error |-> ""]]
NoArgs == [concept_dataset_id |-> None, category |-> None, epsilon |-> None,
           max_size |-> None]
NoFiles == [layer_exists |-> FALSE, sae_data |-> 0, matching |-> 0,
            embeddings_exist |-> FALSE]

\* no request is being handled
HandlerIdle ==
    /\ embeddings = <<>>
    /\ distance_matrix = NoMatrix
    /\ args = NoArgs
    /\ files = NoFiles
    /\ custom_epsilon = None
    /\ max_size = 0
    /\ eps = UnsetFloat
    /\ elbow_calls = 0
    /\ bm_call = NoCall
    /\ response = NoResponse

----------------------------------------------------------------------------
\* The covers BallMapper may return.

\* the orders in which n balls can carry the landmarks 1..n: landmarks are
\* compared only with each other, so their relative order is all that matters
LandmarkOrders(n) ==
    {f \in [1..n -> 1..n] : \A i, j \in 1..n : i # j => f[i] # f[j]}

\* the point sets of n balls: non-empty. Points are opaque labels (the code
\* only unions, intersects and compares the sets), so of the covers that
\* differ by a renaming of the points one is kept: the one in which, for
\* p < q, the first ball holding exactly one of p and q holds p.
PointSets(n) ==
    {c \in [1..n -> (SUBSET Points) \ {{}}] :
        \A p, q \in Points : p < q =>
            \A i \in 1..n : (q \in c[i] /\ p \notin c[i]) =>
                \E j \in 1..(i - 1) : p \in c[j] /\ q \notin c[j]}

Init ==
    /\ \E n \in 1..MaxNodes : \E f \in LandmarkOrders(n) : \E c \in PointSets(n) :
          mapper_nodes = [i \in 1..n |-> [landmark |-> f[i], points_covered |-> c[i]]]
    /\ nodes = <<>>
    /\ edges = {}
    /\ node_dict = <<>>
    /\ adjacency = [x \in {} |-> {}]
    /\ merged = TRUE
    /\ iteration = 0
    /\ nodes_to_merge = <<>>
    /\ idx = 1
    /\ pc = "build"
    /\ processed_nodes = <<>>
    /\ processed_edges = {}
    /\ merge_log = <<>>
    /\ run = 1
    /\ first_result = <<>>
    /\ HandlerIdle

----------------------------------------------------------------------------
\* get_ballmapper: the raw graph built from the cover.

\* one raw node dict per ball; its id is the ball's landmark
RawNodes(mn) ==
    [i \in 1..Len(mn) |->
        [id |-> mn[i].landmark,
         sae_indices |-> mn[i].points_covered,
         sae_count |-> Cardinality(mn[i].points_covered)]]

\* variant: the len(common_saes) > 0 test is dropped
RawEdgesAllPairs(ns) ==
    {[source |-> ns[i].id, target |-> ns[j].id,
      common_saes |-> ns[i].sae_indices \cap ns[j].sae_indices] :
        <<i, j>> \in {p \in (1..Len(ns)) \X (1..Len(ns)) : p[1] < p[2]}}

\* for node1, node2 in combinations(nodes, 2): an edge when they share a point
RawEdges(ns) ==
    {[source |-> ns[i].id, target |-> ns[j].id,
      common_saes |-> ns[i].sae_indices \cap ns[j].sae_indices] :
        <<i, j>> \in {p \in (1..Len(ns)) \X (1..Len(ns)) :
                        /\ p[1] < p[2]
                        /\ ns[p[1]].sae_indices \cap ns[p[2]].sae_indices # {}}}

BuildGraph ==
    /\ pc = "build"
    /\ nodes' = RawNodes(mapper_nodes)
    /\ edges' = RawEdges(RawNodes(mapper_nodes))
    /\ pc' = "start"
    /\ UNCHANGED <<mapper_nodes, node_dict, adjacency, merged, iteration,
                   nodes_to_merge, idx, processed_nodes, processed_edges,
                   merge_log, run, first_result>>
    /\ UNCHANGED handlerVars

----------------------------------------------------------------------------
\* postprocess_ballmapper

\* adjacency list built from the edge list, both directions
BuildAdjacency(es) ==
    [k \in {e.source : e \in es} \cup {e.target : e \in es} |->
        {e.target : e \in {f \in es : f.source = k}}
        \cup {e.source : e \in {f \in es : f.target = k}}]

\* entry of the function: node_dict, adjacency, merged = True, iteration = 0
Start ==
    /\ pc = "start"
    /\ node_dict' = nodes
    /\ adjacency' = BuildAdjacency(edges)
    /\ merged' = TRUE
    /\ iteration' = 0
    /\ nodes_to_merge' = <<>>
    /\ merge_log' = <<>>
    /\ processed_nodes' = <<>>
    /\ processed_edges' = {}
    /\ idx' = 1
    /\ pc' = "loop"
    /\ UNCHANGED <<mapper_nodes, nodes, edges, run, first_result>>
    /\ UNCHANGED handlerVars

\* variant: only a strictly larger neighbor absorbs a node
SupersetNeighborsStrict(d, node_data, neighbors) ==
    {nb \in neighbors :
        /\ nb \in Keys(d)
        /\ node_data.sae_indices \subseteq Lookup(d, nb).sae_indices
        /\ node_data.sae_indices # Lookup(d, nb).sae_indices}

\* variant: the containment test is left out, every live neighbor is a target
SupersetNeighborsUntested(d, node_data, neighbors) ==
    {nb \in neighbors : nb \in Keys(d)}

\* the neighbors a node can be merged into: still in node_dict and covering
\* a superset of the node's points
SupersetNeighbors(d, node_data, neighbors) ==
    {nb \in neighbors :
        /\ nb \in Keys(d)
        /\ node_data.sae_indices \subseteq Lookup(d, nb).sae_indices}

\* the lists the scan "for node_id, node_data in node_dict.items()" can
\* build from position i on: each node with a superset neighbor is flagged,
\* in dict order, with the first such neighbor its set iteration meets
RECURSIVE ScanFrom(_, _, _)
ScanFrom(d, a, i) ==
    IF i > Len(d) THEN {<<>>}
    ELSE LET cands == SupersetNeighbors(d, d[i], Adj(a, d[i].id))
             rest == ScanFrom(d, a, i + 1)
         IN IF cands = {} THEN rest
            ELSE {<<<<d[i].id, t>>>> \o r : t \in cands, r \in rest}

\* adjacency[node_id] is read for every node of the dict: the keys exist after
TouchAll(a, d) == [x \in DOMAIN a \cup Keys(d) |-> Adj(a, x)]

\* variant: a single pass (if merged, not while merged)
LoopConditionOnce(m, it) == m /\ it < 1

\* while merged: the flag alone decides whether another pass runs (the pass
\* counter `it` is only printed)
LoopCondition(m, it) == m

\* while merged: one pass of the scan
ScanPass ==
    /\ pc = "loop"
    /\ LoopCondition(merged, iteration)
    /\ iteration' = iteration + 1
    /\ nodes_to_merge' \in ScanFrom(node_dict, adjacency, 1)
    /\ merged' = (nodes_to_merge' # <<>>)
    /\ pc' = IF nodes_to_merge' # <<>> THEN "merge" ELSE "loop"
    /\ adjacency' = TouchAll(adjacency, node_dict)
    /\ idx' = 1
    /\ UNCHANGED <<mapper_nodes, nodes, edges, node_dict, processed_nodes,
                   processed_edges, merge_log, run, first_result>>
    /\ UNCHANGED handlerVars

\* variant: a merge is applied only towards a higher id
CanMergeUpwards(d, node_id, target_id) ==
    node_id \in Keys(d) /\ target_id \in Keys(d) /\ node_id < target_id

\* variant: only the merged node is tested (if node_id in node_dict)
CanMergeNodeOnly(d, node_id, target_id) ==
    node_id \in Keys(d)

\* if node_id in node_dict and target_id in node_dict
CanMerge(d, node_id, target_id) ==
    node_id \in Keys(d) /\ target_id \in Keys(d)

\* variant: the target's set is assigned, not updated
MergedSaesAssigned(target_saes, node_saes) == node_saes

\* node_dict[target_id]['sae_indices'].update(node_dict[node_id]['sae_indices'])
MergedSaes(target_saes, node_saes) == target_saes \cup node_saes

\* variant: del node_dict[target_id] in place of del node_dict[node_id]
ApplyMergeDeletesTarget(d, node_id, target_id) ==
    LET saes == Lookup(d, target_id).sae_indices \cup Lookup(d, node_id).sae_indices
    IN Delete(Update(d, target_id, saes, Cardinality(saes)), target_id)

\* the dict after the merge: the target holds the union and its size, the
\* merged node is deleted
ApplyMerge(d, node_id, target_id) ==
    LET saes == MergedSaes(Lookup(d, target_id).sae_indices,
                           Lookup(d, node_id).sae_indices)
    IN Delete(Update(d, target_id, saes, Cardinality(saes)), node_id)

\* redirect all connections from the merged node to the target, then
\* adjacency.pop(node_id): the target keeps node_id in its own set
Rewire(a, node_id, target_id) ==
    LET moved == Adj(a, node_id) \ {target_id}
        a1 == Touch(a, node_id)
        a2 == IF moved = {} THEN a1
              ELSE [k \in DOMAIN a1 \cup moved \cup {target_id} |->
                        IF k \in moved
                        THEN (Adj(a1, k) \ {node_id}) \cup {target_id}
                        ELSE IF k = target_id
                        THEN Adj(a1, k) \cup moved
                        ELSE Adj(a1, k)]
    IN Pop(a2, node_id)

\* node_dict[target_id] and node_dict[node_id] inside the merge body raise
\* KeyError for an id that is not a key of the dict
SubscriptRaises(d, node_id, target_id) ==
    node_id \notin Keys(d) \/ target_id \notin Keys(d)

\* one iteration of "for node_id, target_id in nodes_to_merge"
MergeStep ==
    /\ pc = "merge"
    /\ idx <= Len(nodes_to_merge)
    /\ LET node_id == nodes_to_merge[idx][1]
           target_id == nodes_to_merge[idx][2]
       IN IF ~CanMerge(node_dict, node_id, target_id)
          THEN /\ UNCHANGED <<node_dict, adjacency, merge_log>>
               /\ pc' = IF idx = Len(nodes_to_merge) THEN "loop" ELSE "merge"
          ELSE IF SubscriptRaises(node_dict, node_id, target_id)
          THEN /\ UNCHANGED <<node_dict, adjacency, merge_log>>
               /\ pc' = "error"
          ELSE /\ node_dict' = ApplyMerge(node_dict, node_id, target_id)
               /\ adjacency' = Rewire(adjacency, node_id, target_id)
               /\ merge_log' = Append(merge_log, <<node_id, target_id>>)
               /\ pc' = IF idx = Len(nodes_to_merge) THEN "loop" ELSE "merge"
    /\ idx' = IF idx = Len(nodes_to_merge) THEN 1 ELSE idx + 1
    /\ UNCHANGED <<mapper_nodes, nodes, edges, merged, iteration, nodes_to_merge,
                   processed_nodes, processed_edges, run, first_result>>
    /\ UNCHANGED handlerVars

\* variant: the node_id < neighbor_id test is dropped
EdgePairsBothWays(a) ==
    {p \in (DOMAIN a) \X (UNION {a[k] : k \in DOMAIN a}) :
        p[2] \in a[p[1]] /\ p[1] # p[2]}

\* the (node_id, neighbor_id) pairs the edge reconstruction visits
EdgePairs(a) ==
    {p \in (DOMAIN a) \X (UNION {a[k] : k \in DOMAIN a}) :
        p[2] \in a[p[1]] /\ p[1] < p[2]}

\* node_dict[node_id] or node_dict[neighbor_id] raises KeyError
RaisesKeyError(d, a) ==
    \E p \in EdgePairs(a) : p[1] \notin Keys(d) \/ p[2] \notin Keys(d)

ProcessedEdges(d, a) ==
    {[source |-> p[1], target |-> p[2],
      common_saes |-> Lookup(d, p[1]).sae_indices \cap Lookup(d, p[2]).sae_indices] :
        p \in EdgePairs(a)}

\* the loop exits; nodes and edges are reconstructed and returned
\* variant: step 2 enabled, nodes of a single SAE are left out
ProcessedNodesWithoutSmall(d) == SelectSeq(d, LAMBDA n : n.sae_count >= 2)

\* processed_nodes: one entry per item of node_dict, in its order (step 2,
\* the removal of small nodes, is disabled: nodes_to_remove stays empty)
ProcessedNodes(d) == d

Rebuild ==
    /\ pc = "loop"
    /\ ~LoopCondition(merged, iteration)
    /\ IF RaisesKeyError(node_dict, adjacency)
       THEN /\ pc' = "error"
            /\ UNCHANGED <<processed_nodes, processed_edges, first_result>>
       ELSE /\ pc' = "done"
            /\ processed_nodes' = ProcessedNodes(node_dict)
            /\ processed_edges' = ProcessedEdges(node_dict, adjacency)
            /\ first_result' = IF run = 1
                               THEN <<ProcessedNodes(node_dict),
                                      ProcessedEdges(node_dict, adjacency)>>
                               ELSE first_result
    /\ UNCHANGED <<mapper_nodes, nodes, edges, node_dict, adjacency, merged,
                   iteration, nodes_to_merge, idx, merge_log, run>>
    /\ UNCHANGED handlerVars

\* postprocess_ballmapper applied to the (nodes, edges) it returned
Rerun ==
    /\ pc = "done"
    /\ run = 1
    /\ nodes' = processed_nodes
    /\ edges' = processed_edges
    /\ run' = 2
    /\ pc' = "start"
    /\ UNCHANGED <<mapper_nodes, node_dict, adjacency, merged, iteration,
                   nodes_to_merge, idx, processed_nodes, processed_edges,
                   merge_log, first_result>>
    /\ UNCHANGED handlerVars

Next ==
    \/ BuildGraph
    \/ Start
    \/ ScanPass
    \/ MergeStep
    \/ Rebuild
    \/ Rerun

Spec == Init /\ [][Next]_vars

----------------------------------------------------------------------------
\* compute_cosine_distance_matrix
\*
\* numpy computes in binary floating point: every operation returns the
\* representable number nearest to the exact result. The model keeps that
\* and shortens the format: a number is a multiple of 1/Scale, and division,
\* square root and product round to the nearest multiple. nan is the result
\* of 0/0 and of every operation on a nan.

Scale == 1000

Num(x) == [nan |-> FALSE, v |-> x]
NaN == [nan |-> TRUE, v |-> 0]

\* a / b rounded to the nearest integer, for b > 0
RoundDiv(a, b) ==
    IF a >= 0 THEN (2 * a + b) \div (2 * b) ELSE -((2 * (-a) + b) \div (2 * b))

\* the largest x in lo..hi with x * x <= n, by bisection
RECURSIVE FloorSqrt(_, _, _)
FloorSqrt(n, lo, hi) ==
    IF lo >= hi THEN lo
    ELSE LET mid == (lo + hi + 1) \div 2
         IN IF mid * mid <= n THEN FloorSqrt(n, mid, hi)
            ELSE FloorSqrt(n, lo, mid - 1)

\* the square root of n rounded to the nearest integer, for n < (2 * bound)^2
RoundSqrt(n, bound) ==
    LET r == FloorSqrt(n, 0, 2 * bound)
    IN IF n - r * r > r THEN r + 1 ELSE r

\* np.linalg.norm(row): the scaled L2 norm of an integer vector
Norm(row) ==
    RoundSqrt((row[1] * row[1] + row[2] * row[2]) * Scale * Scale,
              MaxCoord * Scale)

\* row / norm, elementwise: 0/0 is nan (numpy warns and goes on)
Normalize(row) ==
    LET norm == Norm(row)
    IN [k \in 1..2 |->
           IF norm = 0 THEN NaN
           ELSE Num(RoundDiv(row[k] * Scale * Scale, norm))]

\* one entry of np.dot(embeddings_norm, embeddings_norm.T)
Dot(a, b) ==
    IF \E k \in 1..2 : a[k].nan \/ b[k].nan THEN NaN
    ELSE Num(RoundDiv(a[1].v * b[1].v, Scale) + RoundDiv(a[2].v * b[2].v, Scale))

\* 1 - similarity
OneMinus(x) == IF x.nan THEN NaN ELSE Num(Scale - x.v)

\* np.clip(x, lo, hi): nan stays nan
Clip(x, lo, hi) ==
    IF x.nan THEN NaN
    ELSE IF x.v < lo THEN Num(lo)
    ELSE IF x.v > hi THEN Num(hi)
    ELSE x

\* the matrix the function builds
CosineDistanceMatrix(E) ==
    LET embeddings_norm == [i \in 1..Len(E) |-> Normalize(E[i])]
    IN [i \in 1..Len(E) |->
           [j \in 1..Len(E) |->
               Clip(OneMinus(Dot(embeddings_norm[i], embeddings_norm[j])),
                    0, 2 * Scale)]]

\* distance_matrix.min() in the print raises ValueError on a zero-size array
MinRaises(m) == Len(m) = 0

\* the integer vectors of the model
Coords == (-MaxCoord)..MaxCoord
Vectors == [1..2 -> Coords]

\* the graph code is not running
GraphIdle ==
    /\ mapper_nodes = <<>>
    /\ nodes = <<>>
    /\ edges = {}
    /\ node_dict = <<>>
    /\ adjacency = [x \in {} |-> {}]
    /\ merged = TRUE
    /\ iteration = 0
    /\ nodes_to_merge = <<>>
    /\ idx = 1
    /\ processed_nodes = <<>>
    /\ processed_edges = {}
    /\ merge_log = <<>>
    /\ run = 1
    /\ first_result = <<>>

graphVars == <<mapper_nodes, nodes, edges, node_dict, adjacency, merged,
               iteration, nodes_to_merge, idx, processed_nodes,
               processed_edges, merge_log, run, first_result>>

\* the function called on any array of up to MaxVectors rows
InitMatrix ==
    /\ \E n \in 0..MaxVectors : embeddings \in [1..n -> Vectors]
    /\ pc = "distance"
    /\ GraphIdle
    /\ distance_matrix = NoMatrix
    /\ args = NoArgs
    /\ files = NoFiles
    /\ custom_epsilon = None
    /\ max_size = 0
    /\ eps = UnsetFloat
    /\ elbow_calls = 0
    /\ bm_call = NoCall
    /\ response = NoResponse

\* one call of compute_cosine_distance_matrix(embeddings)
ComputeDistanceMatrix ==
    /\ pc = "distance"
    /\ LET m == CosineDistanceMatrix(embeddings)
       IN IF MinRaises(m)
          THEN /\ pc' = "distance_raised"
               /\ distance_matrix' = [state |-> "raised", m |-> <<>>]
          ELSE /\ pc' = "distance_done"
               /\ distance_matrix' = [state |-> "returned", m |-> m]
    /\ UNCHANGED <<graphVars, embeddings, args, files, custom_epsilon, max_size,
                   eps, elbow_calls, bm_call, response>>

NextMatrix == ComputeDistanceMatrix

SpecMatrix == InitMatrix /\ [][NextMatrix]_vars

----------------------------------------------------------------------------
\* get_ballmapper: the request handler.
\*
\* request.args holds strings. The threshold and categories arguments are
\* left at their defaults, and the two concept files are taken to exist and to
\* hold concepts. sae_data is the number of SAEs of the layer file after the
\* threshold filter, matching the number of them that carry the requested
\* category; an SAE is its position in the list.

DefaultMaxSize == 3
MinMaxSize == 1

\* int(text) raises ValueError
IntRaises(text) == text \notin {"-1", "0", "1", "2"}

\* int(text)
IntOf(text) ==
    CASE text = "-1" -> -1
      [] text = "0" -> 0
      [] text = "1" -> 1
      [] text = "2" -> 2

\* float(text) raises ValueError
FloatRaises(text) == text \notin {"0.3", "0", "-0.5", "nan", "inf"}

\* float(text)
FloatOf(text) ==
    CASE text = "0.3" -> Float("finite", 30)
      [] text = "0" -> Float("finite", 0)
      [] text = "-0.5" -> Float("finite", -50)
      [] text = "nan" -> Float("nan", 0)
      [] text = "inf" -> Float("inf", 0)

\* variant: the parsed value is not raised to 1
ParseMaxSizeUnclamped(max_size_param) ==
    IF max_size_param = None THEN DefaultMaxSize
    ELSE IF IntRaises(max_size_param) THEN DefaultMaxSize
    ELSE IntOf(max_size_param)

\* the try block that assigns max_size
ParseMaxSize(max_size_param) ==
    IF max_size_param = None THEN DefaultMaxSize
    ELSE IF IntRaises(max_size_param) THEN DefaultMaxSize
    ELSE IF IntOf(max_size_param) < MinMaxSize THEN MinMaxSize
    ELSE IntOf(max_size_param)

\* the query strings of the model
ArgSets ==
    [concept_dataset_id : {"thingsplus", "subject", "wordnet"},
     category : {None, "animal"},
     epsilon : {None, "0.3", "0", "-0.5", "nan", "inf", "abc"},
     max_size : {None, "2", "1", "0", "-1", "2.5"}]

\* the data directories of the model
FileSets ==
    {f \in [layer_exists : BOOLEAN, sae_data : 0..MaxSaes, matching : 0..MaxSaes,
            embeddings_exist : BOOLEAN] : f.matching <= f.sae_data}

InitRequest ==
    /\ args \in ArgSets
    /\ files \in FileSets
    /\ args.category = None => files.matching = files.sae_data
    /\ pc = "request"
    /\ GraphIdle
    /\ embeddings = <<>>
    /\ distance_matrix = NoMatrix
    /\ custom_epsilon = None
    /\ max_size = 0
    /\ eps = UnsetFloat
    /\ elbow_calls = 0
    /\ bm_call = NoCall
    /\ response = NoResponse

\* return jsonify({"error": msg}), status
ErrorResponse(status, msg) == [status |-> status, body |-> [error |-> msg]]

\* variant: the handler answers an exception with what it has built so far
ExceptionResponsePartial(msg) ==
    [status |-> 500, body |-> [error |-> msg, nodes |-> nodes, edges |-> edges]]

\* except Exception as e: return jsonify({'error': str(e)}), 500
ExceptionResponse(msg) == ErrorResponse(500, msg)

\* an exception reaches the handler's except clause
Raise(msg) ==
    /\ response' = ExceptionResponse(msg)
    /\ pc' = "responded"

\* the parameter block
ParseArgs ==
    /\ pc = "request"
    /\ custom_epsilon' = args.epsilon
    /\ max_size' = ParseMaxSize(args.max_size)
    /\ pc' = "load"
    /\ UNCHANGED <<graphVars, embeddings, distance_matrix, args, files, eps,
                   elbow_calls, bm_call, response>>

\* dataset selection and the layer file
LoadData ==
    /\ pc = "load"
    /\ IF args.concept_dataset_id \notin {"thingsplus", "subject"}
       THEN /\ response' = ErrorResponse(400, "Unknown concept dataset")
            /\ pc' = "responded"
       ELSE IF ~files.layer_exists
       THEN /\ response' = ErrorResponse(404, "Layer data not found")
            /\ pc' = "responded"
       ELSE /\ pc' = "filter"
            /\ UNCHANGED response
    /\ UNCHANGED <<graphVars, embeddings, distance_matrix, args, files,
                   custom_epsilon, max_size, eps, elbow_calls, bm_call>>

\* len(filtered_sae_data): the category filter applies when category is given
FilteredCount(a, f) == IF a.category = None THEN f.sae_data ELSE f.matching

\* variant: the emptiness test is missing
NoSaesLeftNever(filtered) == FALSE

\* if len(filtered_sae_data) == 0
NoSaesLeft(filtered) == filtered = 0

\* the 404 of the empty filter
NoSaesResponse(a, f) ==
    [status |-> 404,
     body |-> [error |-> "No SAEs found for the given filter",
               category |-> a.category,
               concept |-> "last concept of the dataset",
               total_saes |-> f.sae_data]]

\* embeddings[filtered_embeddings_positions]: one row per filtered SAE. The
\* rows reach only the distance matrix, which reaches only BallMapper, so one
\* unit vector stands for every row.
FilteredEmbeddings(n) == [i \in 1..n |-> <<1, 0>>]

\* the category filter, the emptiness test and the embeddings test
FilterSaes ==
    /\ pc = "filter"
    /\ IF NoSaesLeft(FilteredCount(args, files))
       THEN /\ response' = NoSaesResponse(args, files)
            /\ pc' = "responded"
            /\ UNCHANGED embeddings
       ELSE IF ~files.embeddings_exist
       THEN /\ response' = ErrorResponse(404, "No embeddings found for this layer")
            /\ pc' = "responded"
            /\ UNCHANGED embeddings
       ELSE /\ embeddings' = FilteredEmbeddings(FilteredCount(args, files))
            /\ pc' = "matrix"
            /\ UNCHANGED response
    /\ UNCHANGED <<graphVars, distance_matrix, args, files, custom_epsilon,
                   max_size, eps, elbow_calls, bm_call>>

\* cosine_distance_matrix = compute_cosine_distance_matrix(filtered_embeddings)
DistanceStep ==
    /\ pc = "matrix"
    /\ LET m == CosineDistanceMatrix(embeddings)
       IN IF MinRaises(m)
          THEN /\ Raise("zero-size array to reduction operation minimum")
               /\ distance_matrix' = [state |-> "raised", m |-> <<>>]
          ELSE /\ distance_matrix' = [state |-> "returned", m |-> m]
               /\ pc' = "elbow"
               /\ UNCHANGED response
    /\ UNCHANGED <<graphVars, embeddings, args, files, custom_epsilon, max_size,
                   eps, elbow_calls, bm_call>>

\* elbow_eps(data, n_neighbors) on n rows: NearestNeighbors(n_neighbors=2)
\* cannot answer for fewer than 2 rows, and int(kneedle.knee_y * 100) raises
\* when KneeLocator finds no knee (knee_y is None), which the data decides
ElbowAlwaysRaises(n) == n < 2

\* the radii elbow_eps may return, in hundredths: int(knee_y * 100) / 100
ElbowValues == {0, 25}

\* eps, distances = elbow_eps(all_filtered_embeddings, 3): the call stands
\* before the test of custom_epsilon and under no condition of its own
ElbowStep ==
    /\ pc = "elbow"
    /\ elbow_calls' = elbow_calls + 1
    /\ \/ /\ Raise("elbow_eps failed")
          /\ UNCHANGED eps
       \/ /\ ~ElbowAlwaysRaises(files.sae_data)
          /\ \E v \in ElbowValues : eps' = Float("finite", v)
          /\ pc' = "epsilon"
          /\ UNCHANGED response
    /\ UNCHANGED <<graphVars, embeddings, distance_matrix, args, files,
                   custom_epsilon, max_size, bm_call>>

\* if custom_epsilon is not None: eps = float(custom_epsilon)
EpsilonStep ==
    /\ pc = "epsilon"
    /\ IF custom_epsilon = None
       THEN /\ pc' = "mapper"
            /\ UNCHANGED <<eps, response>>
       ELSE IF FloatRaises(custom_epsilon)
       THEN /\ Raise("could not convert string to float")
            /\ UNCHANGED eps
       ELSE /\ eps' = FloatOf(custom_epsilon)
            /\ pc' = "mapper"
            /\ UNCHANGED response
    /\ UNCHANGED <<graphVars, embeddings, distance_matrix, args, files,
                   custom_epsilon, max_size, elbow_calls, bm_call>>

\* the point sets of n balls over the points 1..m, one per renaming (as
\* PointSets)
PointSetsOver(n, m) ==
    {c \in [1..n -> (SUBSET (1..m)) \ {{}}] :
        \A p, q \in 1..m : p < q =>
            \A i \in 1..n : (q \in c[i] /\ p \notin c[i]) =>
                \E j \in 1..(i - 1) : p \in c[j] /\ q \notin c[j]}

\* the covers BallMapper may return for m points: each ball has its own
\* landmark among the points
CoversOver(m) ==
    UNION {{[i \in 1..n |-> [landmark |-> f[i], points_covered |-> c[i]]] :
                f \in LandmarkOrders(n), c \in PointSetsOver(n, m)} : n \in 1..m}

\* bm = BallMapper(X=cosine_distance_matrix, eps=eps, max_size=max_size, ...):
\* the constructor is third-party code, it may raise or return any cover,
\* whatever the radius
CallBallMapper ==
    /\ pc = "mapper"
    /\ bm_call' = [called |-> TRUE, eps |-> eps, max_size |-> max_size]
    /\ \/ /\ Raise("BallMapper failed")
          /\ UNCHANGED mapper_nodes
       \/ /\ mapper_nodes' \in CoversOver(FilteredCount(args, files))
          /\ pc' = "build"
          /\ UNCHANGED response
    /\ UNCHANGED <<nodes, edges, node_dict, adjacency, merged, iteration,
                   nodes_to_merge, idx, processed_nodes, processed_edges,
                   merge_log, run, first_result>>
    /\ UNCHANGED <<embeddings, distance_matrix, args, files, custom_epsilon,
                   max_size, eps, elbow_calls>>

\* variant: computed_epsilon always carries the radius
ComputedEpsilonAlways(custom, e) == e

\* 'computed_epsilon': float(eps) if custom_epsilon is None else None
ComputedEpsilon(custom, e) == IF custom = None THEN e ELSE NullFloat

\* the jsonify of the success return
SuccessResponse ==
    [status |-> 200,
     body |-> [category_filter |-> args.category,
               nodes |-> processed_nodes,
               edges |-> processed_edges,
               total_saes |-> FilteredCount(args, files),
               original_total_saes |-> files.sae_data,
               original_nodes |-> Len(nodes),
               original_edges |-> Cardinality(edges),
               computed_epsilon |-> ComputedEpsilon(custom_epsilon, eps),
               used_epsilon |-> eps]]

\* postprocess_ballmapper returned (the success return) or raised (the
\* except clause)
Respond ==
    /\ pc \in {"done", "error"}
    /\ IF pc = "done"
       THEN /\ response' = SuccessResponse
            /\ pc' = "responded"
       ELSE Raise("KeyError")
    /\ UNCHANGED <<graphVars, embeddings, distance_matrix, args, files,
                   custom_epsilon, max_size, eps, elbow_calls, bm_call>>

NextRequest ==
    \/ ParseArgs
    \/ LoadData
    \/ FilterSaes
    \/ DistanceStep
    \/ ElbowStep
    \/ EpsilonStep
    \/ CallBallMapper
    \/ BuildGraph
    \/ Start
    \/ ScanPass
    \/ MergeStep
    \/ Rebuild
    \/ Respond

SpecRequest == InitRequest /\ [][NextRequest]_vars

----------------------------------------------------------------------------
\* Properties.

\* covered point set of node k in a node list
Saes(ns, k) == Lookup(ns, k).sae_indices

\* the ids of the raw nodes merged away by this call
MergedAway == {merge_log[i][1] : i \in 1..Len(merge_log)}

\* C1: when postprocess_ballmapper returns, no surviving node's covered set
\* is a subset of (or equal to) the covered set of a surviving node it is
\* adjacent to, in the returned edges and in the adjacency they come from.
C1_NoNodeInsideNeighbor ==
    pc = "done" =>
        /\ \A e \in processed_edges :
              /\ ~(Saes(processed_nodes, e.source) \subseteq Saes(processed_nodes, e.target))
              /\ ~(Saes(processed_nodes, e.target) \subseteq Saes(processed_nodes, e.source))
        /\ \A n \in Keys(processed_nodes) :
              \A m \in Adj(adjacency, n) \cap Keys(processed_nodes) :
                 ~(Saes(processed_nodes, n) \subseteq Saes(processed_nodes, m))

\* a call that merged a node returns a graph that still has an edge
C1_Witness ==
    /\ pc = "done"
    /\ run = 1
    /\ merge_log # <<>>
    /\ processed_edges # {}

\* C2: the merge loop terminates: the first merge a pass flags is always
\* applied, no step adds a node, so after k passes that flagged a merge at
\* most n - k nodes are left and at most n passes run on n raw nodes.
C2_PassesRemoveNodes ==
    /\ [](pc \in {"loop", "merge", "done", "error"} =>
            /\ iteration <= Len(nodes)
            /\ Len(node_dict) >= 1
            /\ (pc = "loop" /\ merged) => Len(node_dict) + iteration <= Len(nodes))
    /\ [][/\ (pc = "merge" /\ idx = 1) => Len(node_dict') = Len(node_dict) - 1
          /\ pc = "merge" => Len(node_dict') <= Len(node_dict)
          /\ (pc = "loop" /\ pc' = "merge") => Len(nodes_to_merge') >= 1]_vars

\* a second pass that flagged a merge has completed
C2_Witness ==
    /\ pc = "loop"
    /\ merged
    /\ iteration = 2
    /\ Len(merge_log) >= 2

\* C3: postprocess_ballmapper never raises on a well-formed raw graph.
C3_NeverRaises == pc # "error"

\* C4: every returned edge joins two distinct returned nodes, and no
\* unordered pair of nodes appears in more than one returned edge.
C4_EdgesJoinReturnedNodes ==
    pc = "done" =>
        /\ \A e \in processed_edges :
              /\ e.source \in Keys(processed_nodes)
              /\ e.target \in Keys(processed_nodes)
              /\ e.source # e.target
        /\ \A e, f \in processed_edges :
              {e.source, e.target} = {f.source, f.target} => e = f

\* a call returns three nodes joined by at least two edges
C4_Witness ==
    /\ pc = "done"
    /\ run = 1
    /\ Len(processed_nodes) = 3
    /\ Cardinality(processed_edges) >= 2

\* (nodes, edges) is the intersection graph of the nodes' covered sets: an
\* edge joins two distinct nodes of the list and holds their non-empty
\* intersection, and two nodes that share a point are joined by one edge
IntersectionGraph(ns, es) ==
    /\ \A e \in es :
          /\ e.source \in Keys(ns)
          /\ e.target \in Keys(ns)
          /\ e.source # e.target
          /\ e.common_saes = Saes(ns, e.source) \cap Saes(ns, e.target)
          /\ e.common_saes # {}
    /\ \A i, j \in 1..Len(ns) :
          (i < j /\ ns[i].sae_indices \cap ns[j].sae_indices # {}) =>
              Cardinality({e \in es : {e.source, e.target} = {ns[i].id, ns[j].id}}) = 1

\* C5: the raw graph built in get_ballmapper (as handed to
\* postprocess_ballmapper) and the graph postprocess_ballmapper returns are
\* both the intersection graph of their nodes' covered sets: one edge per
\* intersecting pair, none otherwise, common_saes the intersection.
C5_EdgesAreIntersections ==
    /\ pc = "start" => IntersectionGraph(nodes, edges)
    /\ pc = "done" => IntersectionGraph(processed_nodes, processed_edges)

\* a raw graph with an edge and a disjoint pair is simplified by a merge to
\* a graph that has an edge
C5_Witness ==
    /\ pc = "done"
    /\ run = 1
    /\ Len(nodes) = 3
    /\ Cardinality(edges) = 2
    /\ Len(processed_nodes) = 2
    /\ Cardinality(processed_edges) = 1

\* union of the covered sets of a node list
Coverage(ns) == UNION {ns[i].sae_indices : i \in 1..Len(ns)}

C7_Idempotent ==
    (run = 2 /\ pc # "start") =>
        /\ pc # "error"
        /\ merge_log = <<>>
        /\ nodes_to_merge = <<>>
        /\ pc = "done" =>
              /\ iteration = 1
              /\ <<processed_nodes, processed_edges>> = first_result

\* the second application has returned, on a graph the first one simplified
\* by a merge and that has an edge
C7_Witness ==
    /\ run = 2
    /\ pc = "done"
    /\ Len(first_result[1]) < Len(mapper_nodes)
    /\ first_result[2] # {}

\* the raw neighbors of node k
RawNeighbors(k) ==
    {e.target : e \in {f \in edges : f.source = k}}
    \cup {e.source : e \in {f \in edges : f.target = k}}

\* C8: once node A, covered set inside adjacent node B's, has been merged
\* into B: A is not a live node and is absent from the result; B, while
\* live, covers the union of the two raw sets, which is B's raw set; and
\* every live raw neighbor of A other than B is adjacent to B and B to it,
\* in the adjacency and in the returned edges.
C8_MergeIntoNeighbor ==
    pc \in {"loop", "merge", "done"} =>
        \A i \in 1..Len(merge_log) :
            LET A == merge_log[i][1]
                B == merge_log[i][2]
            IN /\ Saes(nodes, A) \subseteq Saes(nodes, B)
               /\ B \in RawNeighbors(A)
               /\ A \notin Keys(node_dict)
               /\ pc = "done" => A \notin Keys(processed_nodes)
               /\ B \in Keys(node_dict) =>
                     /\ Saes(node_dict, B) = Saes(nodes, A) \cup Saes(nodes, B)
                     /\ Saes(node_dict, B) = Saes(nodes, B)
                     /\ \A N \in (RawNeighbors(A) \ {B}) \cap Keys(node_dict) :
                           /\ B \in Adj(adjacency, N)
                           /\ N \in Adj(adjacency, B)
                           /\ pc = "done" =>
                                 \E e \in processed_edges :
                                    {e.source, e.target} = {N, B}

\* A was merged into B, and a third node that was adjacent to A is returned
\* together with B
C8_Witness ==
    /\ pc = "done"
    /\ run = 1
    /\ Len(merge_log) = 1
    /\ merge_log[1][2] \in Keys(processed_nodes)
    /\ (RawNeighbors(merge_log[1][1]) \ {merge_log[1][2]}) \cap Keys(processed_nodes) # {}

\* the superset neighbours the scan can flag as the target of node k
TargetChoices(d, a, k) == SupersetNeighbors(d, Lookup(d, k), Adj(a, k))

\* C11: the scan visits the nodes in ascending id and flags, for each node it
\* merges, the lowest-id live neighbour whose set is a superset; the list of
\* merges a pass decides is therefore ascending in the merged id and every
\* target is the minimum of the admissible targets.
C11_AscendingScanLowestTarget ==
    (pc = "merge" /\ idx = 1) =>
        /\ \A i, j \in 1..Len(nodes_to_merge) :
              i < j => nodes_to_merge[i][1] < nodes_to_merge[j][1]
        /\ \A i \in 1..Len(nodes_to_merge) :
              \A t \in TargetChoices(node_dict, adjacency, nodes_to_merge[i][1]) :
                  nodes_to_merge[i][2] <= t

\* the ids removed from node_dict by the merges logged so far
RemovedBefore(i) == {merge_log[j][1] : j \in 1..(i - 1)}

NonZero(row) == \E k \in 1..2 : row[k] # 0

\* C18: for N >= 1 vectors of non-zero norm the function returns an N x N
\* matrix that is symmetric, has an exactly zero diagonal and has every
\* entry in [0, 2].
C18_SymmetricZeroDiagonalInRange ==
    (/\ pc \in {"distance_done", "distance_raised"}
     /\ Len(embeddings) >= 1
     /\ \A i \in 1..Len(embeddings) : NonZero(embeddings[i]))
    => /\ pc = "distance_done"
       /\ LET D == distance_matrix.m
              N == Len(embeddings)
          IN /\ Len(D) = N
             /\ \A i \in 1..N : Len(D[i]) = N
             /\ \A i, j \in 1..N :
                   /\ D[i][j] = D[j][i]
                   /\ ~D[i][j].nan
                   /\ D[i][j].v >= 0
                   /\ D[i][j].v <= 2 * Scale
             /\ \A i \in 1..N : D[i][i] = Num(0)

\* C19: the function raises instead of returning whenever the input holds a
\* zero-norm vector or no vector at all, and no matrix it returns holds an
\* undefined (nan) entry.
C19_FailsOnDegenerateInput ==
    /\ (/\ pc \in {"distance_done", "distance_raised"}
        /\ \/ Len(embeddings) = 0
           \/ \E i \in 1..Len(embeddings) : ~NonZero(embeddings[i]))
       => pc = "distance_raised"
    /\ pc = "distance_done" =>
          \A i, j \in 1..Len(distance_matrix.m) : ~distance_matrix.m[i][j].nan

\* the handler got past dataset selection and the layer file
DataLoaded ==
    args.concept_dataset_id \in {"thingsplus", "subject"} /\ files.layer_exists

\* C12: every outcome of get_ballmapper is either a complete result, whose
\* nodes and edges are what postprocess_ballmapper returned after its loop
\* ended, or an error that carries no nodes and no edges; while the handler
\* runs there is no response, and a failure at any step ends in the second
\* kind.
C12_CompleteResultOrBareError ==
    /\ pc # "responded" => response = NoResponse
    /\ pc = "responded" =>
          \/ /\ response.status = 200
             /\ {"nodes", "edges"} \subseteq DOMAIN response.body
             /\ "error" \notin DOMAIN response.body
             /\ response.body.nodes = processed_nodes
             /\ response.body.edges = processed_edges
             /\ processed_nodes = node_dict
             /\ ~merged
             /\ ScanFrom(node_dict, adjacency, 1) = {<<>>}
          \/ /\ response.status \in {400, 404, 500}
             /\ "error" \in DOMAIN response.body
             /\ "nodes" \notin DOMAIN response.body
             /\ "edges" \notin DOMAIN response.body

\* the simplification failed after a merge had been applied, and the handler
\* answered with a bare error
C12_Witness ==
    /\ pc = "responded"
    /\ response.status = 500
    /\ Len(nodes) >= 2
    /\ merge_log # <<>>
    /\ DOMAIN response.body = {"error"}

InvalidRadius(e) ==
    \/ e.kind \in {"nan", "inf"}
    \/ e.kind = "finite" /\ e.hundredths <= 0

\* C14: a radius that is zero, negative or non-finite, supplied or computed,
\* is rejected before any node or edge is constructed: no cover, no raw
\* graph and no successful response exist for it.
C14_InvalidRadiusRejected ==
    (bm_call.called /\ InvalidRadius(bm_call.eps)) =>
        /\ mapper_nodes = <<>>
        /\ nodes = <<>>
        /\ edges = {}
        /\ pc = "responded" => response.status # 200

\* C15: with an explicit radius elbow_eps is not invoked, and no request with
\* an explicit radius fails because radius selection failed.
C15_OverrideBypassesElbow ==
    args.epsilon # None =>
        /\ elbow_calls = 0
        /\ (pc = "responded" /\ "error" \in DOMAIN response.body) =>
              response.body.error # "elbow_eps failed"

\* C16: in a successful response used_epsilon is the radius passed to
\* BallMapper, which is the caller's override when one was supplied and
\* otherwise what elbow_eps returned; computed_epsilon is null with an
\* override and equal to used_epsilon without.
C16_EpsilonFields ==
    /\ []((pc = "responded" /\ response.status = 200) =>
             /\ bm_call.called
             /\ response.body.used_epsilon = bm_call.eps
             /\ args.epsilon # None =>
                   /\ response.body.used_epsilon = FloatOf(args.epsilon)
                   /\ response.body.computed_epsilon = NullFloat
             /\ args.epsilon = None =>
                   /\ response.body.computed_epsilon = response.body.used_epsilon
                   /\ response.body.used_epsilon.kind = "finite"
                   /\ response.body.used_epsilon.hundredths \in ElbowValues)
    /\ [][/\ (pc = "epsilon" /\ args.epsilon = None) => eps' = eps
          /\ pc = "mapper" => (bm_call'.eps = eps /\ eps' = eps)
          /\ bm_call.called => (bm_call' = bm_call /\ eps' = eps)]_vars

\* a successful response to a request with epsilon=0.3
C16_Witness ==
    /\ pc = "responded"
    /\ response.status = 200
    /\ args.epsilon = "0.3"
    /\ response.body.used_epsilon = Float("finite", 30)
    /\ response.body.computed_epsilon = NullFloat

\* C17: the overlap cap parsed from max_size, and passed to BallMapper, is an
\* integer >= 1: 3 when max_size is absent, the supplied integer when it is
\* >= 1, 1 when the supplied integer is below 1, 3 when the value is not an
\* integer.
C17_OverlapCap ==
    pc # "request" =>
        /\ max_size \in Nat
        /\ max_size >= 1
        /\ args.max_size = None => max_size = 3
        /\ args.max_size = "2" => max_size = 2
        /\ args.max_size = "1" => max_size = 1
        /\ args.max_size \in {"0", "-1"} => max_size = 1
        /\ args.max_size = "2.5" => max_size = 3
        /\ bm_call.called => bm_call.max_size = max_size

\* BallMapper was called for a request with max_size=0
C17_Witness ==
    /\ bm_call.called
    /\ args.max_size = "0"
    /\ bm_call.max_size = 1

\* C21: while the merge loop runs and after it, adjacency refers to live
\* nodes only: an id that was merged away is in no neighbour set, that of its
\* target included, and is no key of adjacency; between live nodes adjacency
\* is symmetric.
C21_AdjacencyOnLiveNodes ==
    pc \in {"loop", "merge", "done"} =>
        /\ \A k \in MergedAway :
              /\ k \notin DOMAIN adjacency
              /\ \A x \in DOMAIN adjacency : k \notin adjacency[x]
        /\ \A x, y \in Keys(node_dict) :
              y \in Adj(adjacency, x) => x \in Adj(adjacency, y)

\* the live neighbours of node k
LiveNeighbors(d, a, k) == Adj(a, k) \cap Keys(d)

\* the live nodes that have no live neighbour
Isolated(d, a) == {k \in Keys(d) : LiveNeighbors(d, a, k) = {}}

\* one step of the loop, seen from the nodes that have no live neighbour when
\* it starts: the scan flags none of them, neither as the node to merge nor as
\* a target, no merge that is carried out involves one, and each stays in
\* node_dict, unchanged and still without live neighbours
IsolatedStaysStep ==
    pc \in {"loop", "merge"} =>
        \A k \in Isolated(node_dict, adjacency) :
            /\ pc = "loop" =>
                  \A i \in 1..Len(nodes_to_merge') :
                      /\ nodes_to_merge'[i][1] # k
                      /\ nodes_to_merge'[i][2] # k
            /\ \A i \in (Len(merge_log) + 1)..Len(merge_log') :
                  /\ merge_log'[i][1] # k
                  /\ merge_log'[i][2] # k
            /\ k \in Keys(node_dict')
            /\ Lookup(node_dict', k) = Lookup(node_dict, k)
            /\ k \in Isolated(node_dict', adjacency')

KeepsRawSets(d) ==
    \A i \in 1..Len(d) :
        /\ d[i].id \in Keys(nodes)
        /\ d[i].sae_indices = Saes(nodes, d[i].id)
        /\ d[i].sae_count = Cardinality(d[i].sae_indices)

\* C23: the covered set of a live node never changes while the graph is
\* simplified: a merge is applied from a node whose set is contained in the
\* target's, so the union leaves the target's set as it was; every live node,
\* and every node returned, has the covered set it had in the raw graph, and
\* its sae_count is the size of that set.
C23_CoveredSetsConstant ==
    /\ pc \in {"loop", "merge", "error", "done"} => KeepsRawSets(node_dict)
    /\ pc = "done" => KeepsRawSets(processed_nodes)

\* a node that took in a strictly smaller neighbor is returned
C23_Witness ==
    /\ pc = "done"
    /\ run = 1
    /\ \E i \in 1..Len(merge_log) :
          /\ merge_log[i][2] \in Keys(processed_nodes)
          /\ Saes(nodes, merge_log[i][1]) # Saes(nodes, merge_log[i][2])
          /\ Saes(processed_nodes, merge_log[i][2]) = Saes(nodes, merge_log[i][2])

\* every node of the raw graph has its covered set inside the set of some
\* entry of the node list d
CoversRawNodes(d) ==
    \A i \in 1..Len(nodes) :
        \E j \in 1..Len(d) : nodes[i].sae_indices \subseteq d[j].sae_indices

\* the pairs of ids the current pass flagged for merging into each other
MutualPairs ==
    {<<nodes_to_merge[i][1], nodes_to_merge[i][2]>> : i \in
        {i \in 1..Len(nodes_to_merge) :
            \E j \in 1..Len(nodes_to_merge) :
                /\ nodes_to_merge[j][1] = nodes_to_merge[i][2]
                /\ nodes_to_merge[j][2] = nodes_to_merge[i][1]}}

Family(d) == {d[i].sae_indices : i \in 1..Len(d)}

\* the covered sets of the raw graph that no other raw set strictly contains
MaximalSets ==
    {S \in Family(nodes) :
        \A T \in Family(nodes) : S \subseteq T => S = T}

\* the returned nodes cover exactly the inclusion-maximal sets of the raw
\* graph, one node for each
ReturnsMaximalSets ==
    /\ Family(processed_nodes) = MaximalSets
    /\ Len(processed_nodes) = Cardinality(MaximalSets)

\* C25: the covered sets of the result do not depend on the order in which
\* nodes and neighbours are enumerated: whatever the scan order and whichever
\* superset neighbour is chosen, the call ends with a final graph whose
\* covered sets are exactly the inclusion-maximal sets of the raw graph, one
\* node per distinct set.
C25_SameFamilyForEveryOrder ==
    pc \in {"done", "error"} => (pc = "done" /\ ReturnsMaximalSets)

====
